---- MODULE Spec2Model ----
(***************************************************************************)
(* Two models, one for each source file.                                   *)
(*                                                                         *)
(* Spec: h5flow_modules/combined/tracklet_reco.py                          *)
(* (TrackletReconstruction): the per-event cluster-then-fit loop of        *)
(* find_tracks, the track table of calc_tracks and the id assignment and   *)
(* association tables written by run.                                      *)
(*                                                                         *)
(* Arrays are functions: a batch is NEvents rows of NHits hit slots.       *)
(* Positions are the integer 3-vectors returned by _hit_xyz; lengths are   *)
(* kept squared so that all arithmetic stays in the integers.              *)
(*                                                                         *)
(* Library behaviour the stage relies on:                                  *)
(*  - sklearn DBSCAN: neighbourhoods within eps (inclusive), core points   *)
(*    with at least min_samples neighbours, clusters numbered in the order *)
(*    of their first core point; fit raises ValueError on zero samples.    *)
(*  - skimage ransac with LineModelND: the inliers (residual strictly      *)
(*    below the threshold) of the line fitted to a random sample of        *)
(*    ransac_min_samples points; which sample wins is left open.           *)
(*  - sklearn PCA: the principal axis up to its sign.                      *)
(*  - numpy.ma: indexing ignores the mask of an index array, and the data  *)
(*    of a != comparison is True where the operand is masked.              *)
(* The hits of the modelled batches lie on the x axis, but for one hit an   *)
(* event may have beside it, in the plane z = 0; distances are multiples   *)
(* of 5 and the residual threshold is at most 1, so that every fitted line *)
(* and axis is exact.  Of a track record the fields id, nhit, length,      *)
(* start and end (spatial part) are kept.                                  *)
(*                                                                         *)
(* GenSpec: h5flow_modules/charge/raw_event_generator.py                   *)
(* (RawEventGenerator): __init__, init and the calls of next of the ranks  *)
(* of one run.  Each specification leaves the variables of the other at    *)
(* fixed values.  comm.send and comm.recv of mpi4py are messages on        *)
(* channels, one for each pair of ranks, received in the order sent; a     *)
(* recv blocks until its message is there, and a send either returns at    *)
(* once or blocks until its message is received.  GenLiveSpec is GenSpec   *)
(* for the runs of 2 or more ranks, with the condition that the run goes   *)
(* on while a rank can take a step.  Dataset.fields of h5py returns a      *)
(* wrapper that defines no comparison, and reserve_data of the h5flow data *)
(* manager is collective: it returns once every rank has called it.        *)
(* Whether its reserve_ref is collective too is left open.                 *)
(***************************************************************************)
EXTENDS Integers, FiniteSets, Sequences, TLC

\* ---------------------------------------------------------------- bounds
NEvents == 2        \* events of the batch (rows of hits)
NHits == 6          \* hit slots of one event (columns of hits)
MaxValid == 8       \* valid (unmasked) hits of the whole batch
MaxRounds == 3      \* clustering rounds followed for one event
NPackets == 4       \* packets of the input file
MaxRanks == 3       \* MPI ranks of a run
MaxBuffer == 2      \* packets a rank loads at a time (buffer_size)

Events == 1..NEvents
Slots == 1..NHits

\* ------------------------------------------------------- input domains
Origin == <<0, 0, 0>>
DbscanEpsSet == {5}
DbscanMinSamplesSet == {2, 3}
RansacMinSamplesSet == {2, 3}
ResidualThresholdSet == {0, 1}
Gaps == {5, 10}
TrackletsLenSet == {3}
UninitSet == {0, 2147483647}
SourceStart == 10

\* the generator's inputs
None == -1
TimestampPositions == {{0}, {1}, {0, 2}}
StartPositions == {None, 1}
EndPositions == {None} \cup 1..(NPackets + 1)
NhitCutSet == {2}
SyncNoiseCuts == {[scalar |-> TRUE, lo |-> 2, hi |-> 2],
                  [scalar |-> FALSE, lo |-> 1, hi |-> 4]}

VARIABLES
    params,             \* the stage's configuration (__init__)
    xyz,                \* xyz[i][m]: position of hit m of event i (_hit_xyz)
    valid,              \* valid[i][m]: ~hits['id'].mask
    tracklets_len,      \* rows of the tracklets dataset (data_manager)
    pc,                 \* position in run
    ev,                 \* event index i of the loop of find_tracks
    round,              \* rounds of the while loop done for event ev
    iter_mask,          \* iter_mask[i][m]: hit still eligible
    track_id,           \* track_id[i][m]: label data, -1 = no track
    current_track_id,   \* the per-event counter of find_tracks
    discarded,          \* discarded[i]: hits of the clusters of event i that were
                        \* fitted and dropped at line 140 (history)
    n_accepted,         \* n_accepted[i]: clusters accepted for event i
    tracks,             \* the masked table returned by calc_tracks
    written_tracks,     \* rows written to the tracklets dataset
    ref_track_hit,      \* rows of the track -> hit reference
    ref_event_track,    \* rows of the event -> track reference
    err,                \* the exception that ended run, or "none"
    \* RawEventGenerator
    size,               \* number of ranks (self.size)
    buffer_size, nhit_cut, sync_noise_cut, sync_noise_cut_enabled,
    packets,            \* the input file's packets dataset, indexed from 0
    start_position, end_position,
    slices,             \* slices[r]: self.slices of rank r
    iteration,          \* iteration[r]: self.iteration of rank r
    last_unix_ts,       \* last_unix_ts[r]: self.last_unix_ts of rank r
    storage,            \* the data manager's file: datasets, references,
                        \* attributes and the rows written
    phase,              \* "new", "constructed", "running" or "error"
    rank_pc,            \* rank_pc[r]: "idle" between calls of next; inside one
                        \* "send_first" (line 205), "recv" (line 209),
                        \* "send_next" (line 212), "rest" (lines 145-175),
                        \* "reserve_raw" (line 176), "reserve_packets"
                        \* (line 185), "reserve_ref" (line 193); "raised"
                        \* after an exception
    chan,               \* chan[<<s, d>>]: messages sent by s, not yet received by d
    max_unix_ts,        \* max_unix_ts[r]: local of pass_last_unix_ts
    packet_buffer,      \* packet_buffer[r]: local of next
    reads,              \* <<r, k, i>>: call k of rank r read file index i (history)
    handed,             \* handed[r]: the packets and the unix_ts the last call
                        \* gave the event builder
    gen_err,            \* the exception a call of the generator raised, or "none"
    sync_send,          \* whether comm.send returns only once its message is
                        \* received (MPI leaves it to the implementation)
    ref_collective,     \* whether reserve_ref of the data manager returns
                        \* only once every rank has called it (h5flow is not
                        \* part of the sources)
    pending             \* pending[r]: the rows rank r asks reserve_data for
                        \* (locals nevents and len(packets_array) of next)

tvars == <<params, xyz, valid, tracklets_len, pc, ev, round, iter_mask,
          track_id, current_track_id, discarded, n_accepted, tracks, written_tracks,
          ref_track_hit, ref_event_track, err>>

gvars == <<size, buffer_size, nhit_cut, sync_noise_cut, sync_noise_cut_enabled,
           packets, start_position, end_position, slices, iteration,
           last_unix_ts, storage, phase, rank_pc, chan, max_unix_ts,
           packet_buffer, reads, handed, gen_err, sync_send, ref_collective, pending>>

vars == <<tvars, gvars>>

\* ------------------------------------------------------------ helpers
SetMax(S) == CHOOSE x \in S : \A y \in S : y <= x

SetMin(S) == CHOOSE x \in S : \A y \in S : x <= y

Dot(p, q) == p[1] * q[1] + p[2] * q[2] + p[3] * q[3]

Sub(p, q) == <<p[1] - q[1], p[2] - q[2], p[3] - q[3]>>

DistSq(p, q) == Dot(Sub(p, q), Sub(p, q))

Cross(p, q) ==
    <<p[2] * q[3] - p[3] * q[2], p[3] * q[1] - p[1] * q[3], p[1] * q[2] - p[2] * q[1]>>

RECURSIVE SumOver(_, _)
SumOver(f, S) ==
    IF S = {} THEN 0
    ELSE LET m == CHOOSE x \in S : TRUE IN f[m] + SumOver(f, S \ {m})

\* ------------------------------------------------------------ _do_dbscan
\* neighborhoods[m]: the points of the round within dbscan_eps of hit m (the
\* hit itself included).
Neighborhoods(pts, E) ==
    [m \in E |-> {n \in E : DistSq(pts[m], pts[n])
                              <= params.dbscan_eps * params.dbscan_eps}]

CoreSamples(nb, E) ==
    {m \in E : Cardinality(nb[m]) >= params.dbscan_min_samples}

\* The depth-first expansion from a seed: every unlabelled point reached
\* through core points takes the seed's label.
RECURSIVE Reach(_, _, _, _)
Reach(nb, core, free, R) ==
    LET new == {n \in free \ R : \E p \in R \cap core : n \in nb[p]}
    IN  IF new = {} THEN R ELSE Reach(nb, core, free, R \cup new)

RECURSIVE dbscan_inner(_, _, _, _, _, _)
dbscan_inner(nb, core, E, i, labels, label_num) ==
    IF i > NHits THEN labels
    ELSE IF i \notin core \/ labels[i] # -1
         THEN dbscan_inner(nb, core, E, i + 1, labels, label_num)
         ELSE LET c == Reach(nb, core, {n \in E : labels[n] = -1}, {i})
              IN  dbscan_inner(nb, core, E, i + 1,
                               [m \in Slots |-> IF m \in c THEN label_num
                                                ELSE labels[m]],
                               label_num + 1)

do_dbscan_every_hit(pts, mask) ==
    LET E == Slots
        nb == Neighborhoods(pts, E)
    IN  dbscan_inner(nb, CoreSamples(nb, E), E, 1, [m \in Slots |-> -1], 0)

\* track_ids of one round: -1 for noise and for every hit outside mask.
do_dbscan(pts, mask) ==
    LET E == {m \in Slots : mask[m]}
        nb == Neighborhoods(pts, E)
    IN  dbscan_inner(nb, CoreSamples(nb, E), E, 1, [m \in Slots |-> -1], 0)

\* ------------------------------------------------------------ _do_ransac
\* The random samples ransac may draw from the cluster C.
Samples(C) == {S \in SUBSET C : Cardinality(S) = params.ransac_min_samples}

AllSame(pts, S) == \A a \in S, b \in S : pts[a] = pts[b]

Collinear(pts, S) ==
    \A a \in S, b \in S, c \in S :
       Cross(Sub(pts[b], pts[a]), Sub(pts[c], pts[a])) = Origin

\* The sum of the points of the sample: Cardinality(S) times their mean, the
\* origin of the fitted LineModelND.
SampleSum(pts, S) == [k \in 1..3 |-> SumOver([m \in S |-> pts[m][k]], S)]

\* np.linalg.svd of the centred points of a sample that is not collinear and
\* lies in the plane z = 0: the first right-singular vector (not normalised)
\* is an axis of the plane when the x and y deviations are uncorrelated, and
\* a diagonal of it when they have equal spread, the two cases the samples
\* of the model give.
SvdDirection(pts, S) ==
    LET n == Cardinality(S)
        sum == SampleSum(pts, S)
        dx == [m \in S |-> n * pts[m][1] - sum[1]]
        dy == [m \in S |-> n * pts[m][2] - sum[2]]
        sxx == SumOver([m \in S |-> dx[m] * dx[m]], S)
        syy == SumOver([m \in S |-> dy[m] * dy[m]], S)
        sxy == SumOver([m \in S |-> dx[m] * dy[m]], S)
    IN  IF sxy = 0 THEN IF sxx >= syy THEN <<1, 0, 0>> ELSE <<0, 1, 0>>
        ELSE IF sxy > 0 THEN <<1, 1, 0>> ELSE <<1, -1, 0>>

\* Direction of the LineModelND fitted to a sample (not normalised): the
\* difference of the two points of a sample of two, which is the zero vector
\* when they coincide; for a larger sample the first right-singular vector of
\* the centred points, which is the common direction of collinear points and
\* the first axis when all points coincide.
LineDirection(pts, S) ==
    IF AllSame(pts, S)
    THEN IF Cardinality(S) = 2 THEN Origin ELSE <<1, 0, 0>>
    ELSE IF Collinear(pts, S)
    THEN LET far == CHOOSE pq \in S \X S :
                      \A rs \in S \X S :
                         DistSq(pts[pq[1]], pts[pq[2]]) >= DistSq(pts[rs[1]], pts[rs[2]])
         IN  Sub(pts[far[2]], pts[far[1]])
    ELSE SvdDirection(pts, S)

\* residual(p) < residual_threshold for the line with direction d through the
\* mean a / n of the sample (a is the sum of its n points).
IsInlier(p, a, n, d) ==
    LET v == <<n * p[1] - a[1], n * p[2] - a[2], n * p[3] - a[3]>>
        dd == Dot(d, d)
        thr == params.ransac_residual_threshold
    IN  IF thr <= 0 THEN FALSE
        ELSE IF dd = 0 THEN Dot(v, v) < n * n * thr * thr
        ELSE Dot(v, v) * dd - Dot(v, d) * Dot(v, d) < n * n * thr * thr * dd

InliersOf(pts, C, S) ==
    LET a == SampleSum(pts, S)
        n == Cardinality(S)
        d == LineDirection(pts, S)
    IN  {m \in C : IsInlier(pts[m], a, n, d)}

do_ransac_whole_cluster(pts, C) == {C}

\* The inlier sets ransac can return for the cluster C: the consensus set of
\* the model of any sample it may have drawn.
do_ransac(pts, C) == {InliersOf(pts, C, S) : S \in Samples(C)}

\* ------------------------------------------------------------ find_tracks
\* line 132: the cluster is not fitted
ClusterTooSmall(n) == n <= params.ransac_min_samples

\* line 139: the fitted cluster is discarded
NeverTooFew(n) == FALSE

TooFewInliers(n) == n < 2

AcceptKeepsEligible(s, I) ==
    [cur |-> s.cur + 1,
     tid |-> [m \in Slots |-> IF m \in I THEN s.cur + 1 ELSE s.tid[m]],
     im  |-> s.im,
     dis |-> s.dis]

\* lines 142-144: the inliers take the next local id and leave the eligible set
Accept(s, I) ==
    [cur |-> s.cur + 1,
     tid |-> [m \in Slots |-> IF m \in I THEN s.cur + 1 ELSE s.tid[m]],
     im  |-> [m \in Slots |-> IF m \in I THEN FALSE ELSE s.im[m]],
     dis |-> s.dis]

\* line 140: the cluster C is dropped; nothing but the history changes
Discard(s, C) == [s EXCEPT !.dis = @ \cup C]

\* lines 128-144: the states the loop over the clusters c, c+1, ... of one
\* round can end in, one for every choice of ransac's samples.
RECURSIVE ClusterLoop(_, _, _, _)
ClusterLoop(pts, labels, c, s) ==
    LET C == {m \in Slots : labels[m] = c}
    IN  IF C = {} THEN {s}
        ELSE IF ClusterTooSmall(Cardinality(C))
             THEN ClusterLoop(pts, labels, c + 1, s)
             ELSE UNION {IF TooFewInliers(Cardinality(I))
                         THEN ClusterLoop(pts, labels, c + 1, Discard(s, C))
                         ELSE ClusterLoop(pts, labels, c + 1, Accept(s, I))
                         : I \in do_ransac(pts, C)}

\* line 123: the counter at the start of an event's loop
CounterKept(cur) == cur

CounterAtEventStart(cur) == -1

\* lines 118-119: the eligible hits of an event before its first round
IterMaskAllOnes(v) == [m \in Slots |-> TRUE]

InitialIterMask(v) == v

\* line 146: the while loop of the event ends
LoopBreaks(labels, im) ==
    (\A m \in Slots : labels[m] = -1) \/ ~(\E m \in Slots : im[m])

\* ------------------------------------------------------------------ Init
\* One event of the batch: a hits at the origin, then b hits at (g, 0, 0),
\* then q hits (none or one) at (g, g, 0), then padding (masked slots, whose
\* data is the origin).
Layouts ==
    {l \in [a : 0..NHits, b : 0..NHits, g : Gaps, q : {0, 1}] :
        /\ l.a + l.b + l.q <= NHits
        /\ l.b > 0 => l.a > 0
        /\ l.b = 0 => l.g = 5
        /\ l.q > 0 => l.a >= 2 /\ l.b > 0 /\ l.g = 5}

LayoutXyz(l) ==
    [m \in Slots |-> IF m > l.a /\ m <= l.a + l.b THEN <<l.g, 0, 0>>
                     ELSE IF m > l.a + l.b /\ m <= l.a + l.b + l.q
                          THEN <<l.g, l.g, 0>>
                          ELSE Origin]

LayoutValid(l) == [m \in Slots |-> m <= l.a + l.b + l.q]

RECURSIVE SumValid(_, _)
SumValid(lay, i) ==
    IF i > NEvents THEN 0
    ELSE lay[i].a + lay[i].b + lay[i].q + SumValid(lay, i + 1)

ParamSets ==
    {p \in [dbscan_eps : DbscanEpsSet,
            dbscan_min_samples : DbscanMinSamplesSet,
            ransac_min_samples : RansacMinSamplesSet,
            ransac_residual_threshold : ResidualThresholdSet] :
        p.ransac_residual_threshold = 0
           => p.dbscan_min_samples = 2 /\ p.ransac_min_samples = 2}

\* The generator's variables while the tracklet stage is followed.
GeneratorUnused ==
    /\ size = 1 /\ buffer_size = 1 /\ nhit_cut = 1
    /\ sync_noise_cut = 0 /\ sync_noise_cut_enabled = FALSE
    /\ packets = <<>> /\ start_position = 0 /\ end_position = 0
    /\ slices = <<>> /\ iteration = <<>> /\ last_unix_ts = <<>>
    /\ storage = <<>> /\ phase = "unused" /\ rank_pc = <<>> /\ chan = <<>>
    /\ max_unix_ts = <<>> /\ packet_buffer = <<>> /\ reads = {}
    /\ handed = <<>> /\ gen_err = "none" /\ sync_send = FALSE /\ ref_collective = FALSE
    /\ pending = <<>>

Init ==
    /\ params \in ParamSets
    /\ \E lay \in [Events -> Layouts] :
          /\ SumValid(lay, 1) <= MaxValid
          /\ xyz = [i \in Events |-> LayoutXyz(lay[i])]
          /\ valid = [i \in Events |-> LayoutValid(lay[i])]
    /\ tracklets_len \in TrackletsLenSet
    /\ pc = "find"
    /\ ev = 1
    /\ round = 0
    /\ iter_mask = [i \in Events |-> InitialIterMask(valid[i])]
    /\ track_id = [i \in Events |-> [m \in Slots |-> -1]]
    /\ current_track_id = CounterAtEventStart(-1)
    /\ discarded = [i \in Events |-> {}]
    /\ n_accepted = [i \in Events |-> 0]
    /\ tracks = <<>>
    /\ written_tracks = <<>>
    /\ ref_track_hit = <<>>
    /\ ref_event_track = <<>>
    /\ err = "none"
    /\ GeneratorUnused

\* ------------------------------------------------- find_tracks, one round
\* The track_ids the round's clustering gives for the event ev.
RoundLabels == do_dbscan(xyz[ev], iter_mask[ev])

\* One pass of the while loop for event ev (lines 124-147), and the step of
\* the for loop to the next event when the pass ends in break.
FindRound ==
    /\ pc = "find"
    /\ round < MaxRounds
    /\ {m \in Slots : iter_mask[ev][m]} # {}
    /\ LET labels == RoundLabels IN
       \E s \in ClusterLoop(xyz[ev], labels, 0,
                            [cur |-> current_track_id, tid |-> track_id[ev],
                             im |-> iter_mask[ev], dis |-> discarded[ev]]) :
          /\ track_id' = [track_id EXCEPT ![ev] = s.tid]
          /\ iter_mask' = [iter_mask EXCEPT ![ev] = s.im]
          /\ discarded' = [discarded EXCEPT ![ev] = s.dis]
          /\ n_accepted' = [n_accepted EXCEPT ![ev] = s.cur + 1]
          /\ IF LoopBreaks(labels, s.im)
             THEN /\ round' = 0
                  /\ current_track_id' = CounterAtEventStart(s.cur)
                  /\ IF ev = NEvents
                     THEN pc' = "calc" /\ ev' = ev
                     ELSE pc' = pc /\ ev' = ev + 1
             ELSE /\ round' = round + 1
                  /\ current_track_id' = s.cur
                  /\ pc' = pc /\ ev' = ev
    /\ UNCHANGED <<params, xyz, valid, tracklets_len, tracks, written_tracks,
                   ref_track_hit, ref_event_track, err>>
    /\ UNCHANGED gvars

FindEmptyEventReserves ==
    /\ pc = "find"
    /\ ~(\E m \in Slots : iter_mask[ev][m])
    /\ pc' = "error"
    /\ err' = "ValueError"
    /\ tracklets_len' = tracklets_len + 1
    /\ UNCHANGED <<params, xyz, valid, ev, round, iter_mask,
                   track_id, discarded, current_track_id, n_accepted, tracks,
                   written_tracks, ref_track_hit, ref_event_track>>
    /\ UNCHANGED gvars

\* line 196: DBSCAN.fit is given no sample (the event has no eligible hit in
\* its first round) and raises ValueError, which ends run.
FindEmptyEvent ==
    /\ pc = "find"
    /\ ~(\E m \in Slots : iter_mask[ev][m])
    /\ pc' = "error"
    /\ err' = "ValueError"
    /\ UNCHANGED <<params, xyz, valid, tracklets_len, ev, round, iter_mask,
                   track_id, discarded, current_track_id, n_accepted, tracks,
                   written_tracks, ref_track_hit, ref_event_track>>
    /\ UNCHANGED gvars

\* ------------------------------------------------------------ calc_tracks
\* track_ids as find_tracks returns it: the label data under the hits' mask.
IsMember(i, m, j) == track_id[i][m] = j /\ valid[i][m]

Members(i, j) == {m \in Slots : IsMember(i, m, j)}

\* lines 154-155
NTracks ==
    IF \E i \in Events, m \in Slots : valid[i][m]
    THEN SetMax(UNION {{track_id[i][m] : m \in {n \in Slots : valid[i][n]}}
                         : i \in Events}) + 1
    ELSE 1

SlotSkippedBelowThree(n) == n < 3

\* line 161: the slot stays masked
SlotSkipped(n) == n < 2

AllEqual(P) == \A p \in P, q \in P : p = q

\* _do_pca for collinear member positions P: the first principal axis, not
\* normalised and up to the sign sgn the decomposition returns.
PcaAxis(P, sgn) ==
    IF AllEqual(P) THEN <<sgn, 0, 0>>
    ELSE LET far == CHOOSE pq \in P \X P :
                      \A rs \in P \X P : DistSq(pq[1], pq[2]) >= DistSq(rs[1], rs[2])
             d == Sub(far[2], far[1])
         IN  <<sgn * d[1], sgn * d[2], sgn * d[3]>>

Clip1(x, lo, hi) == IF x < lo THEN lo ELSE IF x > hi THEN hi ELSE x

Clip(v, P) ==
    [k \in 1..3 |-> Clip1(v[k], SetMin({p[k] : p \in P}), SetMax({p[k] : p \in P}))]

\* _projected_limits: the centroid moved along the axis by the largest and
\* by the smallest projection is, for collinear members, the member that lies
\* furthest along the axis and the one that lies furthest against it.
ProjectedMax(P, axis) ==
    Clip(CHOOSE p \in P : \A q \in P : Dot(p, axis) >= Dot(q, axis), P)

ProjectedMin(P, axis) ==
    Clip(CHOOSE p \in P : \A q \in P : Dot(p, axis) <= Dot(q, axis), P)

\* line 182: the position written to the 'end' field
EndPosition(r_min, r_max) == r_min

\* lines 165-184: the record of a slot with at least two members
TrackRecord(i, j, sgn, g) ==
    LET P == {xyz[i][m] : m \in Members(i, j)}
        axis == PcaAxis(P, sgn)
        r_min == ProjectedMin(P, axis)
        r_max == ProjectedMax(P, axis)
    IN  [mask |-> FALSE,
         id |-> g,
         nhit |-> Cardinality(Members(i, j)),
         length_sq |-> DistSq(r_max, r_min),
         start |-> r_min,
         end |-> EndPosition(r_min, r_max)]

\* np.empty: a slot that is skipped keeps uninitialised data g in every field
EmptyRecord(g) ==
    [mask |-> TRUE, id |-> g, nhit |-> g, length_sq |-> g,
     start |-> <<g, g, g>>, end |-> <<g, g, g>>]

HasExtent(i, j) == ~AllEqual({xyz[i][m] : m \in Members(i, j)})

CalcTracks ==
    /\ pc = "calc"
    /\ LET cols == 0..(NTracks - 1) IN
       \E g \in UninitSet, sgn \in [Events \X cols -> {1, -1}] :
          /\ \A i \in Events, j \in cols : ~HasExtent(i, j) => sgn[<<i, j>>] = 1
          /\ tracks' = [i \in Events |-> [j \in cols |->
                          IF SlotSkipped(Cardinality(Members(i, j)))
                          THEN EmptyRecord(g)
                          ELSE TrackRecord(i, j, sgn[<<i, j>>], g)]]
    /\ pc' = "write"
    /\ UNCHANGED <<params, xyz, valid, tracklets_len, ev, round, iter_mask,
                   track_id, discarded, current_track_id, n_accepted, written_tracks,
                   ref_track_hit, ref_event_track, err>>
    /\ UNCHANGED gvars

\* ---------------------------------------------------------------------- run
\* Columns of the table returned by calc_tracks.
Cols == DOMAIN tracks[1]

Width == Cardinality(Cols)

\* The slots (event, local id) of the table in row-major order.
RowMajorSlots ==
    [k \in 1..(NEvents * Width) |-> <<((k - 1) \div Width) + 1, (k - 1) % Width>>]

SlotIsValid(sl) == ~tracks[sl[1]][sl[2]].mask

\* tracks[tracks_mask]: the unmasked slots, in row-major order
ValidSlots == SelectSeq(RowMajorSlots, SlotIsValid)

PlacedFromZero(start, k) == k - 1

\* line 79: the k-th value placed, np.r_[tracks_slice].astype('u4') (the cast
\* changes no value of a dataset of fewer than 2^32 rows)
PlacedId(start, k) == start + k - 1

\* position of a valid slot among the valid slots
RankOf(sl) == CHOOSE k \in 1..Len(ValidSlots) : ValidSlots[k] = sl

\* lines 75-80: count the valid slots, reserve their rows, place the durable
\* ids and write the rows.
WriteTracks ==
    /\ pc = "write"
    /\ LET n == Len(ValidSlots)
           withIds == [i \in Events |-> [j \in Cols |->
                         IF SlotIsValid(<<i, j>>)
                         THEN [tracks[i][j] EXCEPT
                                 !.id = PlacedId(tracklets_len, RankOf(<<i, j>>))]
                         ELSE tracks[i][j]]]
       IN  /\ tracklets_len' = tracklets_len + n
           /\ tracks' = withIds
           /\ written_tracks' = [k \in 1..n |-> withIds[ValidSlots[k][1]][ValidSlots[k][2]]]
    /\ pc' = "refs"
    /\ UNCHANGED <<params, xyz, valid, ev, round, iter_mask, track_id, discarded,
                   current_track_id, n_accepted, ref_track_hit,
                   ref_event_track, err>>
    /\ UNCHANGED gvars

\* hits + '_index': the storage index of hit slot m of event i
hit_idx(i, m) == (i - 1) * NHits + (m - 1)

ev_id_local(i) == i - 1

\* np.r_[source_slice]: the storage index of event i
ev_id(i) == SourceStart + (i - 1)

\* The hit slots of the batch in row-major order.
RowMajorHits ==
    [k \in 1..(NEvents * NHits) |-> <<((k - 1) \div NHits) + 1, ((k - 1) % NHits) + 1>>]

\* line 83: the column take_along_axis reads for a label (a negative index
\* counts from the last column)
TakeColumn(l) == IF l < 0 THEN Width + l ELSE l

\* line 84: the data of (track_ids != -1); a masked entry of a masked array
\* compares unequal to an unmasked value
LabelNotMinusOne(i, m) == IF valid[i][m] THEN track_id[i][m] # -1 ELSE TRUE

HitSelectedByLabelOnly(h) == LabelNotMinusOne(h[1], h[2])

\* line 84: the data of the selection mask of the track -> hit rows
HitSelected(h) ==
    /\ ~tracks[h[1]][TakeColumn(track_id[h[1]][h[2]])].mask
    /\ LabelNotMinusOne(h[1], h[2])

\* line 85
TrackHitRow(h) ==
    [track |-> tracks[h[1]][TakeColumn(track_id[h[1]][h[2]])].id,
     hit |-> hit_idx(h[1], h[2])]

\* line 90
EventTrackRow(sl) == [event |-> ev_id(sl[1]), track |-> tracks[sl[1]][sl[2]].id]

\* lines 82-91: both references are written.
WriteRefs ==
    /\ pc = "refs"
    /\ Width > 0
    /\ LET sel == SelectSeq(RowMajorHits, HitSelected)
       IN  ref_track_hit' = [k \in 1..Len(sel) |-> TrackHitRow(sel[k])]
    /\ ref_event_track' = [k \in 1..Len(ValidSlots) |-> EventTrackRow(ValidSlots[k])]
    /\ pc' = "done"
    /\ UNCHANGED <<params, xyz, valid, tracklets_len, ev, round, iter_mask,
                   track_id, discarded, current_track_id, n_accepted, tracks,
                   written_tracks, err>>
    /\ UNCHANGED gvars

\* line 83: the table has no column (no hit of the batch has a track), and
\* take_along_axis raises IndexError for the index -1.
TakeAlongAxisFails ==
    /\ pc = "refs"
    /\ Width = 0
    /\ pc' = "error"
    /\ err' = "IndexError"
    /\ UNCHANGED <<params, xyz, valid, tracklets_len, ev, round, iter_mask,
                   track_id, discarded, current_track_id, n_accepted, tracks,
                   written_tracks, ref_track_hit, ref_event_track>>
    /\ UNCHANGED gvars

Next ==
    \/ FindRound
    \/ FindEmptyEvent
    \/ CalcTracks
    \/ WriteTracks
    \/ WriteRefs
    \/ TakeAlongAxisFails

Spec == Init /\ [][Next]_vars

\* ================================================================
\* Model of h5flow_modules/charge/raw_event_generator.py (RawEventGenerator):
\* the slices built by __init__, the checks and the datasets of init, and
\* next, which every rank calls once per iteration.  A rank's call of next is
\* cut at the blocking calls of pass_last_unix_ts: the part up to its first
\* send or recv, the recv with the send that follows it, the return of a
\* send, and the rest of next up to reserve_data of the data manager, which
\* all ranks pass together.  An exception ends the rank that raised it.

\* The packets file: data packets (type 0) whose timestamp is their index
\* plus one, the last of them with bad parity, and timestamp packets (type 4)
\* at the positions tp.
File(tp) ==
    [i \in 0..(NPackets - 1) |->
        IF i \in tp
        THEN [packet_type |-> 4, timestamp |-> 100 + i, valid_parity |-> 1, index |-> i]
        ELSE [packet_type |-> 0, timestamp |-> i + 1,
              valid_parity |-> IF i = NPackets - 1 THEN 0 ELSE 1, index |-> i]]

Ranks == 0..(size - 1)

\* len(self.packets)
NumPackets == Cardinality(DOMAIN packets)

\* line 87: range(first, end_position, step)
RangeLen(first, stop, step) ==
    IF first >= stop THEN 0 ELSE ((stop - first - 1) \div step) + 1

\* line 87: the slices of rank r, each <<start, stop>>
SlicesOf(r, start, stop) ==
    LET first == start + r * buffer_size
        step == size * buffer_size
    IN  [k \in 1..RangeLen(first, stop, step) |->
           <<first + (k - 1) * step, first + (k - 1) * step + buffer_size>>]

\* line 91: self.packets.fields('packet_type') is h5py's FieldsWrapper, which
\* defines no ==, so the comparison with 4 is the value False, np.argmax of it
\* is 0 and the packet taken is the first of the file, whatever its type
FirstTimestampPacket == packets[0]

\* lines 59-94, on every rank (opening the file and bcast are collective)
Construct ==
    /\ phase = "new"
    /\ LET start == IF start_position = None THEN 0 ELSE start_position
           stop == IF end_position = None \/ end_position > NumPackets
                   THEN NumPackets ELSE end_position
       IN  /\ start_position' = start
           /\ end_position' = stop
           /\ slices' = [r \in Ranks |-> SlicesOf(r, start, stop)]
    /\ iteration' = [r \in Ranks |-> 0]
    /\ last_unix_ts' = [r \in Ranks |-> FirstTimestampPacket]
    /\ phase' = "constructed"
    /\ UNCHANGED <<size, buffer_size, nhit_cut, sync_noise_cut,
                   sync_noise_cut_enabled, packets, storage, rank_pc, chan,
                   max_unix_ts, packet_buffer, reads, handed, gen_err,
                   sync_send, ref_collective, pending>>
    /\ UNCHANGED tvars

ExistingDsetRawOnly ==
    IF "raw_events" \in storage.dsets THEN "raw_events" ELSE "none"

\* lines 102-105: the dataset whose existence makes init raise, or "none"
ExistingDset ==
    IF "raw_events" \in storage.dsets THEN "raw_events"
    ELSE IF "packets" \in storage.dsets THEN "packets"
    ELSE "none"

\* lines 99-124
InitCall ==
    /\ phase = "constructed"
    /\ IF ExistingDset # "none"
       THEN /\ phase' = "error"
            /\ gen_err' = "RuntimeError"
            /\ UNCHANGED storage
       ELSE /\ phase' = "running"
            /\ storage' = [storage EXCEPT
                             !.dsets = @ \cup {"raw_events", "packets"},
                             !.refs = @ \cup {<<"raw_events", "packets">>},
                             !.attrs = @ \cup {"raw_events"}]
            /\ UNCHANGED gen_err
    /\ UNCHANGED <<size, buffer_size, nhit_cut, sync_noise_cut,
                   sync_noise_cut_enabled, packets, start_position,
                   end_position, slices, iteration, last_unix_ts, rank_pc,
                   chan, max_unix_ts, packet_buffer, reads, handed, sync_send, ref_collective,
                   pending>>
    /\ UNCHANGED tvars

\* H5FlowGenerator.EMPTY, a slice that selects nothing
EMPTY == <<-1, -1>>

\* line 136: the file indices self.packets[sl] reads (a slice is cut at the
\* end of the dataset)
ReadIndices(sl) == {i \in DOMAIN packets : sl[1] <= i /\ i < sl[2]}

\* lines 138-141
IsKeptType(p) ==
    \/ (p.valid_parity = 1 /\ p.packet_type = 0)
    \/ p.packet_type \in {4, 6, 7}

\* The elements of the set I of file indices, in increasing order.
RECURSIVE InOrder(_)
InOrder(I) == IF I = {} THEN <<>> ELSE <<SetMin(I)>> \o InOrder(I \ {SetMin(I)})

\* line 143: block[mask]
MaskedBlock(sl) ==
    LET idx == InOrder({i \in ReadIndices(sl) : IsKeptType(packets[i])})
    IN  [k \in 1..Len(idx) |-> packets[idx[k]]]

\* line 208
MaxUnixTs(buf, last) ==
    LET ts == {k \in 1..Len(buf) : buf[k].packet_type = 4}
    IN  IF ts = {} THEN last
        ELSE buf[SetMin({k \in ts : \A j \in ts : buf[j].timestamp <= buf[k].timestamp})]

\* The calls of next every rank makes: one per slice of the rank that has the
\* most, and the call that finds the slices used up.
NumCalls == SetMax({Len(slices[r]) : r \in Ranks}) + 1

SourceNext(r) == IF r < size - 1 THEN r + 1 ELSE 0

\* line 209: the rank whose message rank r receives
Source(r) == IF r > 0 THEN r - 1 ELSE size - 1

\* A message of comm.send: the packet sent, with the number of the sender's
\* call of next that sent it (history).
Message(ts, k) == [payload |-> ts, iter |-> k]

\* lines 129-143 and pass_last_unix_ts up to its first blocking call (lines
\* 200-208): rank size - 1 posts its send to rank 0, the others go to recv
NextBegin(r) ==
    /\ phase = "running"
    /\ rank_pc[r] = "idle"
    /\ iteration[r] < NumCalls
    /\ LET sl == IF iteration[r] >= Len(slices[r]) THEN EMPTY
                 ELSE slices[r][iteration[r] + 1]
           buf == MaskedBlock(sl)
       IN  /\ reads' = reads \cup {<<r, iteration[r], i>> : i \in ReadIndices(sl)}
           /\ packet_buffer' = [packet_buffer EXCEPT ![r] = buf]
           /\ max_unix_ts' = [max_unix_ts EXCEPT ![r] = MaxUnixTs(buf, last_unix_ts[r])]
    /\ iteration' = [iteration EXCEPT ![r] = @ + 1]
    /\ chan' = IF size >= 2 /\ r = size - 1
               THEN [chan EXCEPT ![<<r, 0>>] =
                       Append(@, Message(last_unix_ts[r], iteration[r] + 1))]
               ELSE chan
    /\ rank_pc' = [rank_pc EXCEPT ![r] = IF size < 2 THEN "rest"
                                         ELSE IF r = size - 1 THEN "send_first"
                                         ELSE "recv"]
    /\ UNCHANGED <<size, buffer_size, nhit_cut, sync_noise_cut,
                   sync_noise_cut_enabled, packets, start_position,
                   end_position, slices, last_unix_ts, storage, phase,
                   handed, gen_err, sync_send, ref_collective, pending>>
    /\ UNCHANGED tvars

\* line 209: the packet rank r receives
Received(r) == Head(chan[<<Source(r), r>>]).payload

\* lines 209-212: the channels after the recv of rank r and the send that
\* follows it
ChanAfterRecv(r) ==
    LET taken == [chan EXCEPT ![<<Source(r), r>>] = Tail(@)]
    IN  IF r # size - 1
        THEN [taken EXCEPT ![<<r, r + 1>>] =
                Append(@, Message(max_unix_ts[r], iteration[r]))]
        ELSE taken

\* lines 209-212: the recv returns once the message of Source(r) is there;
\* every rank but the last then posts its send to the next rank
PassRecv(r) ==
    /\ phase = "running"
    /\ rank_pc[r] = "recv"
    /\ chan[<<Source(r), r>>] # <<>>
    /\ last_unix_ts' = [last_unix_ts EXCEPT ![r] = Received(r)]
    /\ chan' = ChanAfterRecv(r)
    /\ rank_pc' = [rank_pc EXCEPT ![r] = IF r # size - 1 THEN "send_next" ELSE "rest"]
    /\ UNCHANGED <<size, buffer_size, nhit_cut, sync_noise_cut,
                   sync_noise_cut_enabled, packets, start_position,
                   end_position, slices, iteration, storage, phase,
                   max_unix_ts, packet_buffer, reads, handed, gen_err,
                   sync_send, ref_collective, pending>>
    /\ UNCHANGED tvars

\* The rank the send of rank r goes to (line 205: 0, line 212: r + 1).
SendDest(r) == IF rank_pc[r] = "send_first" THEN 0 ELSE r + 1

\* lines 205 and 212: comm.send returns, at once when the message is
\* buffered, and once the message is received when the send is synchronous
SendReturns(r) ==
    /\ phase = "running"
    /\ rank_pc[r] \in {"send_first", "send_next"}
    /\ sync_send => chan[<<r, SendDest(r)>>] = <<>>
    /\ rank_pc' = [rank_pc EXCEPT ![r] = IF @ = "send_first" THEN "recv" ELSE "rest"]
    /\ UNCHANGED <<size, buffer_size, nhit_cut, sync_noise_cut,
                   sync_noise_cut_enabled, packets, start_position,
                   end_position, slices, iteration, last_unix_ts, storage,
                   phase, chan, max_unix_ts, packet_buffer, reads, handed,
                   gen_err, sync_send, ref_collective, pending>>
    /\ UNCHANGED tvars

\* line 145: the buffer with self.last_unix_ts put in front
Inserted(buf, last) == <<last>> \o buf

\* lines 148-152: unix_ts.  np.split cuts the buffer before every timestamp
\* packet; a piece of more than one packet gives its first packet once for
\* each packet that follows it.  The first piece starts with the packet put
\* in front, of whatever type.
UnixTsOf(buf, last) ==
    LET all == Inserted(buf, last)
        followers == SelectSeq([k \in 1..Len(all) |-> k],
                               LAMBDA k : k > 1 /\ all[k].packet_type # 4)
    IN  [n \in 1..Len(followers) |->
           all[SetMax({1} \cup {j \in 1..followers[n] : all[j].packet_type = 4})]]

\* line 154: timestamp % 2^31 (every timestamp of the model is below 2^31)
Low31(t) == t

\* lines 153-154: packet_buffer without its timestamp packets; the packet put
\* in front stays when it is no timestamp packet
PacketsOf(buf, last) ==
    LET data == SelectSeq(Inserted(buf, last), LAMBDA q : q.packet_type # 4)
    IN  [n \in 1..Len(data) |-> [data[n] EXCEPT !.timestamp = Low31(@)]]

\* line 159
InSyncWindow(q) ==
    /\ q.timestamp > sync_noise_cut.lo
    /\ q.timestamp < sync_noise_cut.hi

\* lines 160-161: an array indexed with the boolean mask of line 159
Masked(arr, pkts) ==
    LET keep == SelectSeq([k \in 1..Len(pkts) |-> k], LAMBDA k : InSyncWindow(pkts[k]))
    IN  [n \in 1..Len(keep) |-> arr[keep[n]]]

\* line 164: the events an event builder may return for the packets it is
\* given: the packets cut into consecutive pieces, each piece an event or
\* left out
RECURSIVE BuildEvents(_)
BuildEvents(h) ==
    IF h = <<>> THEN {<<>>}
    ELSE UNION {LET rest == BuildEvents(SubSeq(h, n + 1, Len(h)))
                IN  rest \cup {<<SubSeq(h, 1, n)>> \o t : t \in rest}
                : n \in 1..Len(h)}

\* line 167
PassesNhitCut(event) == Len(event) >= nhit_cut

RECURSIVE TotalLen(_)
TotalLen(events) ==
    IF events = <<>> THEN 0 ELSE Len(Head(events)) + TotalLen(Tail(events))

\* line 159 evaluates self.sync_noise_cut[0]: a cut that is a plain integer
\* cannot be subscripted
CutRaises == sync_noise_cut_enabled /\ sync_noise_cut.scalar

\* line 161: unix_ts indexed with a mask of another length
MaskRaises(r) ==
    /\ sync_noise_cut_enabled
    /\ ~sync_noise_cut.scalar
    /\ Len(PacketsOf(packet_buffer[r], last_unix_ts[r]))
          # Len(UnixTsOf(packet_buffer[r], last_unix_ts[r]))

\* line 155
LastUnixTsAfter(r) ==
    LET unix_ts == UnixTsOf(packet_buffer[r], last_unix_ts[r])
    IN  IF Len(unix_ts) > 0 THEN unix_ts[Len(unix_ts)] ELSE last_unix_ts[r]

\* lines 145-175: rank r builds its events and enters reserve_data for the
\* raw events (line 176), where it waits for the other ranks
NextBuild(r) ==
    /\ phase = "running"
    /\ rank_pc[r] = "rest"
    /\ ~CutRaises
    /\ ~MaskRaises(r)
    /\ last_unix_ts' = [last_unix_ts EXCEPT ![r] = LastUnixTsAfter(r)]
    /\ LET pkts == PacketsOf(packet_buffer[r], last_unix_ts[r])
           unix_ts == UnixTsOf(packet_buffer[r], last_unix_ts[r])
           kept == IF sync_noise_cut_enabled THEN Masked(pkts, pkts) ELSE pkts
           kept_ts == IF sync_noise_cut_enabled THEN Masked(unix_ts, pkts) ELSE unix_ts
       IN  /\ handed' = [handed EXCEPT ![r] = [packets |-> kept, unix_ts |-> kept_ts]]
           /\ \E built \in BuildEvents(kept) :
                 LET events == SelectSeq(built, PassesNhitCut)
                 IN  pending' = [pending EXCEPT ![r] =
                                   [nevents |-> Len(events), npackets |-> TotalLen(events)]]
    /\ rank_pc' = [rank_pc EXCEPT ![r] = "reserve_raw"]
    /\ UNCHANGED <<size, buffer_size, nhit_cut, sync_noise_cut,
                   sync_noise_cut_enabled, packets, start_position,
                   end_position, slices, iteration, storage, phase, chan,
                   max_unix_ts, packet_buffer, reads, gen_err, sync_send, ref_collective>>
    /\ UNCHANGED tvars

\* lines 145-161: the call of rank r ends in the TypeError of line 159 or in
\* the IndexError of line 161
NextRaises(r) ==
    /\ phase = "running"
    /\ rank_pc[r] = "rest"
    /\ CutRaises \/ MaskRaises(r)
    /\ last_unix_ts' = [last_unix_ts EXCEPT ![r] = LastUnixTsAfter(r)]
    /\ rank_pc' = [rank_pc EXCEPT ![r] = "raised"]
    /\ gen_err' = IF CutRaises THEN "TypeError" ELSE "IndexError"
    /\ UNCHANGED <<size, buffer_size, nhit_cut, sync_noise_cut,
                   sync_noise_cut_enabled, packets, start_position,
                   end_position, slices, iteration, storage, phase, chan,
                   max_unix_ts, packet_buffer, reads, handed, sync_send, ref_collective,
                   pending>>
    /\ UNCHANGED tvars

\* The rows all ranks ask reserve_data for.
Reserved(field) == SumOver([r \in Ranks |-> pending[r][field]], Ranks)

\* lines 176-184: reserve_data of the data manager is collective; once every
\* rank has entered it for the raw events the dataset grows by the rows of
\* all ranks, and each rank goes on to reserve_data for its packets (line 185)
ReserveRawEvents ==
    /\ phase = "running"
    /\ \A r \in Ranks : rank_pc[r] = "reserve_raw"
    /\ storage' = [storage EXCEPT !.raw_len = @ + Reserved("nevents")]
    /\ rank_pc' = [r \in Ranks |-> "reserve_packets"]
    /\ UNCHANGED <<size, buffer_size, nhit_cut, sync_noise_cut,
                   sync_noise_cut_enabled, packets, start_position,
                   end_position, slices, iteration, last_unix_ts, phase, chan,
                   max_unix_ts, packet_buffer, reads, handed, gen_err,
                   sync_send, ref_collective, pending>>
    /\ UNCHANGED tvars

\* lines 185-192: reserve_data for the packets has been entered by every
\* rank (they left line 176 together); the dataset grows by the rows of all
\* ranks once, when the first rank returns from it, and rank r writes its
\* packets and enters reserve_ref (line 193)
ReservePackets(r) ==
    /\ phase = "running"
    /\ rank_pc[r] = "reserve_packets"
    /\ storage' = IF \A q \in Ranks : rank_pc[q] = "reserve_packets"
                  THEN [storage EXCEPT !.packets_len = @ + Reserved("npackets")]
                  ELSE storage
    /\ rank_pc' = [rank_pc EXCEPT ![r] = "reserve_ref"]
    /\ UNCHANGED <<size, buffer_size, nhit_cut, sync_noise_cut,
                   sync_noise_cut_enabled, packets, start_position,
                   end_position, slices, iteration, last_unix_ts, phase, chan,
                   max_unix_ts, packet_buffer, reads, handed, gen_err,
                   sync_send, ref_collective, pending>>
    /\ UNCHANGED tvars

\* Rank r can return from reserve_ref: at once, or, when reserve_ref is
\* collective, once no rank is left that has yet to enter it.
RefReserved(r) ==
    ref_collective => \A q \in Ranks : rank_pc[q] # "reserve_packets"

\* The rows of the reference dataset after reserve_ref of rank r: a
\* collective reserve_ref makes room for the events of all ranks once, when
\* the first rank returns from it, another one for the events of rank r.
RefLenAfter(r) ==
    IF ref_collective
    THEN IF \A q \in Ranks : rank_pc[q] = "reserve_ref"
         THEN storage.ref_len + Reserved("nevents")
         ELSE storage.ref_len
    ELSE storage.ref_len + pending[r].nevents

\* lines 193-197: reserve_ref returns, rank r writes its references and its
\* call of next returns
NextFinish(r) ==
    /\ phase = "running"
    /\ rank_pc[r] = "reserve_ref"
    /\ RefReserved(r)
    /\ storage' = [storage EXCEPT !.ref_len = RefLenAfter(r)]
    /\ rank_pc' = [rank_pc EXCEPT ![r] = "idle"]
    /\ UNCHANGED <<size, buffer_size, nhit_cut, sync_noise_cut,
                   sync_noise_cut_enabled, packets, start_position,
                   end_position, slices, iteration, last_unix_ts, phase, chan,
                   max_unix_ts, packet_buffer, reads, handed, gen_err,
                   sync_send, ref_collective, pending>>
    /\ UNCHANGED tvars

\* The tracklet stage's variables while the generator is followed.
TrackletUnused ==
    /\ params = <<>> /\ xyz = <<>> /\ valid = <<>> /\ tracklets_len = 0
    /\ pc = "unused" /\ ev = 0 /\ round = 0 /\ iter_mask = <<>>
    /\ track_id = <<>> /\ current_track_id = -1 /\ discarded = <<>>
    /\ n_accepted = <<>> /\ tracks = <<>> /\ written_tracks = <<>>
    /\ ref_track_hit = <<>> /\ ref_event_track = <<>> /\ err = "none"

\* The value of a packet variable that is not set yet.
NoPacket == [packet_type |-> None, timestamp |-> None, valid_parity |-> 0, index |-> None]

\* The parameters of a run, the input file and the output file before
\* __init__.
GenInit ==
    /\ size \in 1..MaxRanks
    /\ buffer_size \in 1..MaxBuffer
    /\ nhit_cut \in NhitCutSet
    /\ sync_noise_cut \in SyncNoiseCuts
    /\ sync_noise_cut_enabled \in BOOLEAN
    /\ packets \in {File(tp) : tp \in TimestampPositions}
    /\ start_position \in StartPositions
    /\ end_position \in EndPositions
    /\ \E d \in SUBSET {"raw_events", "packets"} :
          storage = [dsets |-> d, refs |-> {}, attrs |-> {},
                     raw_len |-> 0, packets_len |-> 0, ref_len |-> 0]
    /\ slices = [r \in Ranks |-> <<>>]
    /\ iteration = [r \in Ranks |-> 0]
    /\ last_unix_ts = [r \in Ranks |-> NoPacket]
    /\ phase = "new"
    /\ rank_pc = [r \in Ranks |-> "idle"]
    /\ chan = [c \in Ranks \X Ranks |-> <<>>]
    /\ max_unix_ts = [r \in Ranks |-> NoPacket]
    /\ packet_buffer = [r \in Ranks |-> <<>>]
    /\ reads = {}
    /\ handed = [r \in Ranks |-> [packets |-> <<>>, unix_ts |-> <<>>]]
    /\ pending = [r \in Ranks |-> [nevents |-> 0, npackets |-> 0]]
    /\ gen_err = "none"
    /\ sync_send \in BOOLEAN
    /\ ref_collective \in BOOLEAN
    /\ TrackletUnused

GenNext ==
    \/ Construct
    \/ InitCall
    \/ \E r \in Ranks : NextBegin(r)
    \/ \E r \in Ranks : PassRecv(r)
    \/ \E r \in Ranks : SendReturns(r)
    \/ \E r \in Ranks : NextBuild(r)
    \/ ReserveRawEvents
    \/ \E r \in Ranks : ReservePackets(r)
    \/ \E r \in Ranks : NextFinish(r)
    \/ \E r \in Ranks : NextRaises(r)

GenSpec == GenInit /\ [][GenNext]_vars

\* ================================================================ claims
AfterFind == pc \in {"calc", "write", "refs", "done"} \/ err = "IndexError"

AfterCalc == pc \in {"write", "refs", "done"} \/ err = "IndexError"

AfterWrite == pc \in {"refs", "done"} \/ err = "IndexError"

Eligible(i) == {m \in Slots : iter_mask[i][m]}

NumValid(i) == Cardinality({m \in Slots : valid[i][m]})

LabelsUsed(i) == {track_id[i][m] : m \in Slots} \ {-1}

ValidSlotSet == {sl \in Events \X Cols : ~tracks[sl[1]][sl[2]].mask}

\* C1: in every round of find_tracks in which the clustering yields a
\* non-noise cluster, the eligible set of the event strictly shrinks.
C1_RoundShrinksEligible ==
    [][(pc = "find" /\ Eligible(ev) # {} /\ (\E m \in Slots : RoundLabels[m] # -1))
         => (/\ \A m \in Slots : iter_mask'[ev][m] => iter_mask[ev][m]
             /\ \E m \in Slots : iter_mask[ev][m] /\ ~iter_mask'[ev][m])]_vars

\* C2: after find_tracks the non-negative labels of an event with k accepted
\* clusters are exactly 0..k-1 (every other label is -1).
C2_LabelsDense ==
    AfterFind => \A i \in Events : LabelsUsed(i) = 0..(n_accepted[i] - 1)

C2_Witness ==
    /\ pc = "calc"
    /\ n_accepted[1] >= 1
    /\ n_accepted[NEvents] = 2
    /\ \E i \in Events, m \in Slots : valid[i][m] /\ track_id[i][m] = -1

\* C3: every accepted track has at least two member hits: each of the local
\* ids 0..k-1 given out for an event is carried by at least two of its hits
\* (in every round, hence in the labels find_tracks returns), and every valid
\* slot of calc_tracks has nhit >= 2.
C3_TracksHaveTwoHits ==
    /\ \A i \in Events : \A l \in 0..(n_accepted[i] - 1) :
          Cardinality({m \in Slots : track_id[i][m] = l}) >= 2
    /\ AfterCalc => \A sl \in ValidSlotSet : tracks[sl[1]][sl[2]].nhit >= 2

C3_Witness ==
    /\ pc = "done"
    /\ \E sl \in ValidSlotSet :
          /\ tracks[sl[1]][sl[2]].nhit = 2
          /\ NumValid(sl[1]) > 2

\* C4: the durable ids of the valid slots, read in row-major order, are the
\* consecutive integers of the reserved range in increasing order; a masked
\* slot receives none.
C4_DurableIdsConsecutive ==
    AfterWrite =>
       LET n == Cardinality(ValidSlotSet)
           first == tracklets_len - n
       IN  /\ {tracks[sl[1]][sl[2]].id : sl \in ValidSlotSet} = first..(tracklets_len - 1)
           /\ \A s1 \in ValidSlotSet, s2 \in ValidSlotSet :
                 (s1[1] < s2[1] \/ (s1[1] = s2[1] /\ s1[2] < s2[2]))
                    => tracks[s1[1]][s1[2]].id < tracks[s2[1]][s2[2]].id
           /\ \A sl \in (Events \X Cols) \ ValidSlotSet :
                 \E g \in UninitSet : tracks[sl[1]][sl[2]] = EmptyRecord(g)

C4_Witness ==
    /\ pc = "done"
    /\ Cardinality(ValidSlotSet) >= 3
    /\ \E sl \in (Events \X Cols) \ ValidSlotSet : sl[1] < NEvents

\* C5: every track id of a row of the track -> hit or of the event -> track
\* reference is the durable id of a row written to the track table.
C5_RefsNameWrittenTracks ==
    pc = "done" =>
       LET ids == {written_tracks[k].id : k \in 1..Len(written_tracks)}
       IN  /\ \A k \in 1..Len(ref_track_hit) : ref_track_hit[k].track \in ids
           /\ \A k \in 1..Len(ref_event_track) : ref_event_track[k].track \in ids

C5_Witness ==
    /\ pc = "done"
    /\ Len(ref_track_hit) > 0
    /\ Len(ref_event_track) > 0
    /\ (Events \X Cols) \ ValidSlotSet # {}
    /\ \E i \in Events, m \in Slots : valid[i][m] /\ track_id[i][m] = -1

\* The pair the track -> hit reference is to hold for hit m of event i.
OwnedHits ==
    {h \in Events \X Slots :
        /\ valid[h[1]][h[2]]
        /\ track_id[h[1]][h[2]] >= 0
        /\ <<h[1], track_id[h[1]][h[2]]>> \in ValidSlotSet}

\* C6: the track -> hit reference holds exactly one row (durable id of the
\* owning track, hit index) for each valid hit with a non-negative label
\* whose slot is valid, and no other row.
C6_TrackHitRowsExact ==
    pc = "done" =>
       /\ Len(ref_track_hit) = Cardinality(OwnedHits)
       /\ \A h \in OwnedHits :
             \E k \in 1..Len(ref_track_hit) :
                ref_track_hit[k] = [track |-> tracks[h[1]][track_id[h[1]][h[2]]].id,
                                    hit |-> hit_idx(h[1], h[2])]
       /\ \A k \in 1..Len(ref_track_hit) :
             \E h \in OwnedHits : ref_track_hit[k].hit = hit_idx(h[1], h[2])

\* C7: the event -> track reference holds exactly one row per valid slot,
\* (storage index of the owning event, durable id); an event with n accepted
\* tracks contributes n rows.
C7_EventTrackRowsExact ==
    pc = "done" =>
       /\ Len(ref_event_track) = Cardinality(ValidSlotSet)
       /\ \A sl \in ValidSlotSet :
             \E k \in 1..Len(ref_event_track) :
                ref_event_track[k] = [event |-> SourceStart + sl[1] - 1,
                                      track |-> tracks[sl[1]][sl[2]].id]
       /\ \A i \in Events :
             Cardinality({k \in 1..Len(ref_event_track) :
                            ref_event_track[k].event = SourceStart + i - 1})
                = n_accepted[i]

C7_Witness ==
    /\ pc = "done"
    /\ n_accepted[1] = 1
    /\ n_accepted[NEvents] = 2

\* C8: the recorded length of a valid track is the distance between its
\* recorded start and end positions.
C8_LengthIsStartEndDistance ==
    AfterCalc =>
       \A sl \in ValidSlotSet :
          tracks[sl[1]][sl[2]].length_sq
             = DistSq(tracks[sl[1]][sl[2]].start, tracks[sl[1]][sl[2]].end)

\* C9: a hit whose validity flag is off is never eligible and never labelled.
C9_InvalidHitsUntouched ==
    \A i \in Events, m \in Slots :
       ~valid[i][m] => ~iter_mask[i][m] /\ track_id[i][m] = -1

C9_Witness ==
    /\ pc = "done"
    /\ \E i \in Events :
          /\ n_accepted[i] >= 1
          /\ \E m \in Slots : ~valid[i][m]

\* An event with fewer than two valid hits, or whose first clustering round
\* yields only noise.
Degenerate(i) ==
    \/ NumValid(i) < 2
    \/ \A m \in Slots : do_dbscan(xyz[i], valid[i])[m] = -1

\* C10: a degenerate event raises no error, keeps every label at -1 and has
\* no valid track slot.
C10_DegenerateEventsNoError ==
    \A i \in Events :
       Degenerate(i) =>
          /\ ~(pc = "error" /\ ev = i)
          /\ \A m \in Slots : track_id[i][m] = -1
          /\ AfterCalc => \A j \in Cols : tracks[i][j].mask

\* The clustering of the first round of event i, and its non-noise clusters.
FirstLabels(i) == do_dbscan(xyz[i], InitialIterMask(valid[i]))

ClusterIds(L) == {L[m] : m \in Slots} \ {-1}

ClusterOf(L, c) == {m \in Slots : L[m] = c}

AllFitted(L) ==
    /\ ClusterIds(L) # {}
    /\ \A c \in ClusterIds(L) :
          Cardinality(ClusterOf(L, c)) > params.ransac_min_samples

\* C11: when the first round of an event yields k clusters, each larger than
\* ransac_min_samples, and the fit of each marks all its points inliers (every
\* clustered hit is labelled by the round), the round leaves cluster c
\* labelled c, noise at -1 and k tracks accepted; a later round of the event
\* changes nothing and ends its loop, and no step changes the labels of
\* another event, so find_tracks returns exactly these k tracks.
C11_CollinearClustersBecomeTracks ==
    [][/\ (pc = "find" /\ round = 0 /\ Eligible(ev) # {})
          => LET labels == RoundLabels
             IN  (/\ AllFitted(labels)
                  /\ \A m \in Slots : labels[m] # -1 => track_id'[ev][m] # -1)
                    => /\ track_id'[ev] = labels
                       /\ n_accepted'[ev] = Cardinality(ClusterIds(labels))
       /\ (pc = "find" /\ round >= 1 /\ Eligible(ev) # {})
          => LET first == FirstLabels(ev)
             IN  (track_id[ev] = first /\ AllFitted(first))
                    => /\ track_id'[ev] = track_id[ev]
                       /\ n_accepted'[ev] = n_accepted[ev]
                       /\ round' = 0
       /\ \A i \in Events :
             (pc # "find" \/ i # ev)
                => track_id'[i] = track_id[i] /\ n_accepted'[i] = n_accepted[i]
      ]_vars

C11_Witness ==
    /\ pc = "done"
    /\ \E i \in Events :
          /\ Cardinality(ClusterIds(FirstLabels(i))) = 2
          /\ AllFitted(FirstLabels(i))
          /\ track_id[i] = FirstLabels(i)
          /\ n_accepted[i] = 2
          /\ \A c \in {0, 1} :
                Cardinality({m \in Slots : track_id[i][m] = c}) = 3

\* The largest number of tracks find_tracks accepted for an event of the batch.
MostAccepted == SetMax({n_accepted[i] : i \in Events})

\* C12: the table calc_tracks returns has, for every event, the slots of the
\* local ids 0..m-1, m being the largest number of accepted tracks of an
\* event; slot (i, j) is valid exactly when at least 2 valid hits of event i
\* are labelled j, and every other slot is there, masked.
C12_TableIsRectangular ==
    AfterCalc =>
       /\ \A i \in Events : DOMAIN tracks[i] = 0..(MostAccepted - 1)
       /\ \A i \in Events : \A j \in 0..(MostAccepted - 1) :
             /\ ~tracks[i][j].mask
                  <=> Cardinality({m \in Slots : valid[i][m] /\ track_id[i][m] = j}) >= 2
             /\ tracks[i][j].mask => \E g \in UninitSet : tracks[i][j] = EmptyRecord(g)

C12_Witness ==
    /\ pc = "write"
    /\ n_accepted[1] = 2
    /\ n_accepted[NEvents] = 1
    /\ ~tracks[1][1].mask
    /\ tracks[NEvents][1].mask

\* C13: nothing is emitted for a batch before calc_tracks has completed for
\* it: until then no row of the tracklets dataset is reserved and no row of
\* the track table or of either reference is written, and a run that ends
\* before calc_tracks (the exception of find_tracks) ends with nothing written.
C13_NoEmissionBeforeCalc ==
    /\ ~AfterCalc =>
          /\ tracklets_len \in TrackletsLenSet
          /\ written_tracks = <<>>
          /\ ref_track_hit = <<>>
          /\ ref_event_track = <<>>
    /\ (Len(written_tracks) > 0 \/ Len(ref_track_hit) > 0 \/ Len(ref_event_track) > 0)
          => /\ DOMAIN tracks = Events
             /\ pc \in {"refs", "done"}
    /\ err = "ValueError" => pc = "error" /\ tracks = <<>>

C13_Witness ==
    /\ pc = "done"
    /\ DOMAIN tracks = Events
    /\ tracklets_len \notin TrackletsLenSet
    /\ Len(written_tracks) = 2
    /\ Len(ref_event_track) = 2
    /\ Len(ref_track_hit) >= 4

\* C16: the hits of a cluster that was fitted and discarded (fewer than 2
\* inliers) stay unlabelled for the rest of the event: in every later state,
\* and so in the labels find_tracks returns, their label is -1.
C16_DiscardedStayUnlabelled ==
    \A i \in Events : \A m \in discarded[i] : track_id[i][m] = -1

\* The hits of event ev that take a label in the step.
NewlyLabelled == {m \in Slots : track_id[ev][m] = -1 /\ track_id'[ev][m] # -1}

\* The hits of event ev that take the label t in the step.
GivenLabel(t) == {m \in Slots : track_id[ev][m] = -1 /\ track_id'[ev][m] = t}

\* The set I is the consensus set of a line fitted to a sample of the
\* cluster C of event ev: the residual of exactly the hits of I among those
\* of C is below the threshold (lines 136-137).
IsInlierSetOf(I, C) ==
    \E S \in Samples(C) : I = InliersOf(xyz[ev], C, S)

\* C17: a round gives the next local ids, one to each cluster it accepts;
\* the hits that take an id are exactly the inliers of a line fitted to a
\* cluster of the round that has more than ransac_min_samples hits, they are
\* 2 or more, they were eligible, and different ids go to different
\* clusters; exactly the newly labelled hits leave the eligible set, so the
\* outliers of an accepted cluster keep -1 and stay eligible in the round;
\* a labelled hit is never eligible and its label never changes.
C17_AcceptedInliersAreFinal ==
    [][/\ \A i \in Events, m \in Slots :
             /\ track_id[i][m] # -1 => ~iter_mask[i][m] /\ track_id'[i][m] = track_id[i][m]
             /\ track_id'[i][m] # -1 => ~iter_mask'[i][m]
       /\ (pc = "find" /\ NewlyLabelled # {}) =>
             LET new == NewlyLabelled
                 labels == RoundLabels
             IN  /\ \A m \in new : iter_mask[ev][m] /\ labels[m] # -1
                 /\ \A m \in new, n \in new :
                       track_id'[ev][m] = track_id'[ev][n] <=> labels[m] = labels[n]
                 /\ \A t \in n_accepted[ev]..(n_accepted'[ev] - 1) :
                       LET I == GivenLabel(t)
                           C == ClusterOf(labels, labels[CHOOSE m \in I : TRUE])
                       IN  /\ Cardinality(I) >= 2
                           /\ Cardinality(C) > params.ransac_min_samples
                           /\ IsInlierSetOf(I, C)
                           /\ \A m \in C \ I :
                                 track_id'[ev][m] = -1 /\ iter_mask'[ev][m]
       /\ pc = "find" =>
             /\ {track_id'[ev][m] : m \in NewlyLabelled}
                   = n_accepted[ev]..(n_accepted'[ev] - 1)
             /\ \A m \in Slots :
                   iter_mask'[ev][m] <=> (iter_mask[ev][m] /\ m \notin NewlyLabelled)
      ]_vars

\* After the first round of an event: a cluster of that round was accepted,
\* and one of its hits, an outlier of the fit, is unlabelled and eligible.
C17_Witness ==
    /\ pc = "find"
    /\ round = 1
    /\ n_accepted[ev] >= 1
    /\ \E m \in Slots, n \in Slots :
          /\ FirstLabels(ev)[m] # -1
          /\ FirstLabels(ev)[m] = FirstLabels(ev)[n]
          /\ track_id[ev][n] # -1
          /\ track_id[ev][m] = -1
          /\ iter_mask[ev][m]

\* The loop state of an event before its first round.
FreshEvent(v) ==
    [cur |-> -1, tid |-> [m \in Slots |-> -1], im |-> v, dis |-> {}]

\* Whether the while loop of lines 124-147, run on the hits pts of one event
\* alone from the loop state s in round r, can end with the labels tid (the
\* loops that end within MaxRounds rounds).  A label once given is kept, so
\* only the loop states whose labels agree with tid are followed.
RECURSIVE LoopGives(_, _, _, _)
LoopGives(pts, s, r, tid) ==
    /\ r < MaxRounds
    /\ LET labels == do_dbscan(pts, s.im)
       IN  \E t \in ClusterLoop(pts, labels, 0, s) :
              /\ \A m \in Slots : t.tid[m] # -1 => t.tid[m] = tid[m]
              /\ IF LoopBreaks(labels, t.im) THEN t.tid = tid
                 ELSE LoopGives(pts, t, r + 1, tid)

\* C18: the labels of an event depend on its own hits and the configuration
\* only: its loop starts from a fresh state (counter -1, eligible = valid, no
\* label), a step changes the labels and the eligibility of no other event,
\* and the labels its loop ends with are labels the loop gives for the event
\* taken alone.
C18_EventsAreIndependent ==
    [][/\ (pc = "find" /\ round = 0)
          => /\ current_track_id = -1
             /\ iter_mask[ev] = valid[ev]
             /\ \A m \in Slots : track_id[ev][m] = -1
       /\ \A i \in Events :
             (pc # "find" \/ i # ev)
                => track_id'[i] = track_id[i] /\ iter_mask'[i] = iter_mask[i]
       /\ (pc = "find" /\ (ev' # ev \/ pc' = "calc"))
          => LoopGives(xyz[ev], FreshEvent(valid[ev]), 0, track_id'[ev])
      ]_vars

C18_Witness ==
    /\ pc = "calc"
    /\ xyz[1] # xyz[NEvents]
    /\ n_accepted[1] = 2
    /\ n_accepted[NEvents] = 1
    /\ \E m \in Slots : valid[NEvents][m] /\ track_id[NEvents][m] = -1

\* C19: find_tracks and calc_tracks agree on the tracks: every local id given
\* out for an event is a valid slot, every labelled hit has a row in the
\* track -> hit reference, the nhit of every written track is the number of
\* track -> hit rows that carry its durable id, and the nhit of the written
\* tracks add up to the number of labelled hits.
C19_FindAndCalcAgree ==
    pc = "done" =>
       /\ \A i \in Events : \A l \in 0..(n_accepted[i] - 1) :
             l \in Cols /\ ~tracks[i][l].mask
       /\ \A i \in Events, m \in Slots :
             track_id[i][m] >= 0
                => \E k \in 1..Len(ref_track_hit) : ref_track_hit[k].hit = hit_idx(i, m)
       /\ \A k \in 1..Len(written_tracks) :
             written_tracks[k].nhit
                = Cardinality({r \in 1..Len(ref_track_hit) :
                                 ref_track_hit[r].track = written_tracks[k].id})
       /\ SumOver([k \in 1..Len(written_tracks) |-> written_tracks[k].nhit],
                  1..Len(written_tracks))
             = Cardinality({h \in Events \X Slots : track_id[h[1]][h[2]] >= 0})

\* ------------------------------------------- claims on RawEventGenerator
\* C14: with the sync noise cut enabled and an integer sync_noise_cut, a call
\* of next raises no error and hands the event builder exactly the packets
\* of its buffer (timestamp packets aside) whose timestamp is not below the
\* cut.
C14_IntegerCutKeepsLatePackets ==
    (sync_noise_cut_enabled /\ sync_noise_cut.scalar) =>
       /\ gen_err # "TypeError"
       /\ \A r \in Ranks :
             (phase = "running" /\ rank_pc[r] = "idle" /\ iteration[r] > 0) =>
                {handed[r].packets[k] : k \in 1..Len(handed[r].packets)}
                   = {packet_buffer[r][k] : k \in
                        {j \in 1..Len(packet_buffer[r]) :
                            /\ packet_buffer[r][j].packet_type # 4
                            /\ packet_buffer[r][j].timestamp >= sync_noise_cut.lo}}

\* C15: init raises when the raw-event dataset or the packets dataset exists
\* and then leaves the storage as it was; otherwise it raises nothing and
\* creates its datasets, reference and attributes.  After the error the
\* storage holds no reference, no attribute and no row.
C15_InitRejectsExistingOutputs ==
    [][/\ (phase = "constructed" /\ storage.dsets \cap {"raw_events", "packets"} # {})
          => /\ phase' = "error"
             /\ gen_err' = "RuntimeError"
             /\ storage' = storage
       /\ (phase = "constructed" /\ storage.dsets \cap {"raw_events", "packets"} = {})
          => /\ phase' = "running"
             /\ gen_err' = "none"
             /\ storage'.dsets = {"raw_events", "packets"}
             /\ storage'.refs = {<<"raw_events", "packets">>}
       /\ gen_err' = "RuntimeError"
          => /\ storage'.refs = {} /\ storage'.attrs = {}
             /\ storage'.raw_len = 0 /\ storage'.packets_len = 0
             /\ reads' = {}
      ]_vars

C15_Witness ==
    /\ phase = "error"
    /\ gen_err = "RuntimeError"
    /\ storage.dsets = {"packets"}
    /\ storage.refs = {}

\* The file indices the k-th slice of rank r reads.
SliceReads(r, k) == ReadIndices(slices[r][k])

\* C20: the slices of all ranks together read every index of
\* [start_position, end_position) exactly once, and no slice (and no call of
\* next) reads an index at or beyond end_position.
C20_SlicesTileTheRange ==
    phase # "new" =>
       /\ \A i \in start_position..(end_position - 1) :
             Cardinality({rk \in {x \in Ranks \X (1..NPackets) : x[2] <= Len(slices[x[1]])} :
                            i \in SliceReads(rk[1], rk[2])}) = 1
       /\ \A r \in Ranks : \A k \in 1..Len(slices[r]) :
             \A i \in SliceReads(r, k) : i < end_position
       /\ \A t \in reads : t[3] >= start_position /\ t[3] < end_position

\* ------------------------------------------------ the ring hand-off (C21)
\* The runs of 2 or more ranks over a whole input file into a new output
\* file.  A run with the cut disabled never reads sync_noise_cut (lines
\* 157-161), so such runs are followed for the default, scalar cut only.
GenLiveInit ==
    /\ GenInit
    /\ size >= 2
    /\ start_position = None
    /\ end_position = None
    /\ storage.dsets = {}
    /\ sync_noise_cut_enabled \/ sync_noise_cut.scalar

\* Such a run with its scheduling: the driver constructs and initialises
\* the generator and every rank is a process of its own that keeps running,
\* so the run does not stop while one of them can take a step.
GenLiveSpec ==
    /\ GenLiveInit
    /\ [][GenNext]_vars
    /\ WF_vars(GenNext)

\* Rank r is inside pass_last_unix_ts.
InHandOff(r) == rank_pc[r] \in {"send_first", "recv", "send_next"}

\* Rank r has made all its calls of next.
RankDone(r) == rank_pc[r] = "idle" /\ iteration[r] = NumCalls

\* A call has raised (line 159 or 161), and every other rank has raised in
\* the same call or waits for the ranks that raised in reserve_data (line
\* 176).
Stopped ==
    /\ \E r \in Ranks : rank_pc[r] = "raised"
    /\ \A r \in Ranks : rank_pc[r] \in {"raised", "reserve_raw"}

\* The run is over: init raised, every rank has made all its calls, or a call
\* has raised.
Finished ==
    \/ phase = "error"
    \/ phase = "running" /\ ((\A r \in Ranks : RankDone(r)) \/ Stopped)

\* The channels of the ring.
RingChannels == {<<Source(r), r>> : r \in Ranks}

\* In every state of a run of 2 or more ranks: a channel holds at most one
\* message and only the channels of the ring hold any; a call raises only
\* with the sync noise cut enabled; and when the run is over no message is
\* left, no rank is inside the hand-off and all ranks have made the same
\* number of calls.
HandOffInv ==
    (size >= 2 /\ phase = "running") =>
       /\ \A r \in Ranks : rank_pc[r] = "raised" => sync_noise_cut_enabled
       /\ \A c \in DOMAIN chan :
             Len(chan[c]) <= 1 /\ (chan[c] # <<>> => c \in RingChannels)
       /\ Finished => /\ \A c \in DOMAIN chan : chan[c] = <<>>
                      /\ \A r \in Ranks : ~InHandOff(r) /\ iteration[r] = iteration[0]

\* The recv of rank r takes the message its source sent in the same
\* iteration: rank 0 what rank size - 1 held when the iteration began, a rank
\* r > 0 the max_unix_ts of rank r - 1.
RecvStep ==
    \A r \in Ranks :
       (size >= 2 /\ rank_pc[r] = "recv" /\ rank_pc'[r] # "recv") =>
          LET msg == Head(chan[<<Source(r), r>>])
          IN  /\ msg.iter = iteration[r]
              /\ last_unix_ts'[r] = msg.payload
              /\ chan'[<<Source(r), r>>] = <<>>
              /\ r = 0 => /\ iteration[size - 1] = iteration[0]
                          /\ rank_pc[size - 1] \in {"send_first", "recv"}
                          /\ msg.payload = last_unix_ts[size - 1]
              /\ r > 0 => /\ iteration[r - 1] = iteration[r]
                          /\ msg.payload = max_unix_ts[r - 1]

\* C21: with 2 or more ranks that make the same number of calls of next, the
\* ring hand-off of pass_last_unix_ts never deadlocks, with buffered and with
\* synchronous sends: every message sent is received exactly once, in the
\* iteration it was sent in, by the next rank of the ring; rank 0 receives
\* what rank size - 1 held at the start of the iteration; every run comes
\* to its end (a run that goes on while a rank can take a step is never
\* left with a rank waiting inside the hand-off), so every rank that enters
\* the hand-off leaves it; and when no call raises every rank completes
\* every call.
C21_RingHandOffCompletes ==
    /\ []HandOffInv
    /\ [][RecvStep]_vars
    /\ <>Finished

C21_Witness ==
    /\ size = 3
    /\ sync_send
    /\ gen_err = "none"
    /\ NumCalls >= 2
    /\ \A r \in Ranks : rank_pc[r] = "idle" /\ iteration[r] = NumCalls
    /\ \E r \in Ranks : last_unix_ts[r] # FirstTimestampPacket

====
